---- MODULE Spec2Model ----
(***************************************************************************)
(* Model of the Trading Legends standalone map editor                      *)
(* (src/map_editor_main.py): the layered sparse map document with its      *)
(* place / remove / save / load operations, and the tileset slicer.        *)
(*                                                                         *)
(* Python str values that the code builds or takes apart character by      *)
(* character (coordinate keys, map names, file names) are sequences of     *)
(* one-character strings; strings the code only passes around (tile type   *)
(* names, layer names, asset paths) are TLA+ strings.                      *)
(***************************************************************************)
EXTENDS Integers, Sequences, FiniteSets, TLC

VARIABLES
    map_data,           \* self.map_data: the map document
    current_layer,      \* self.current_layer
    selected_category,  \* self.selected_category
    selected_tile,      \* self.selected_tile
    categories,         \* self.categories: category -> list of tile types
    textures,           \* self.textures: category -> tile type -> texture info
    maps_exists,        \* whether the directory <cwd>/maps exists
    maps_dir,           \* the files of <cwd>/maps: file name -> content
    last_call,          \* the operation that produced this state, and its outcome
    image,              \* the image handed to slice_tilesheet
    tiles,              \* the list slice_tilesheet returned
    slice_pc,           \* "ready" before the slicer ran, "sliced" after
    camera_x,           \* self.camera_x
    camera_y,           \* self.camera_y
    grid_enabled,       \* self.grid_enabled
    sidebar_tile_scroll,     \* self.sidebar_tile_scroll
    sidebar_tile_scroll_max, \* self.sidebar_tile_scroll_max
    asset_groups,       \* self.asset_groups: base name -> group
    scan_list,          \* the _process_asset_file calls of one scan, in order
    scan_pos,           \* how many of them the running scan has made
    scan_pass,          \* 0 before any scan, then the number of the scan
    scan_last,          \* the last _process_asset_file call and its outcome
    first_scan          \* what the first scan left, once it has completed

dvars == <<map_data, current_layer, selected_category, selected_tile,
           categories, textures, maps_exists, maps_dir, last_call>>
svars == <<image, tiles, slice_pc>>
kvars == <<camera_x, camera_y, grid_enabled, sidebar_tile_scroll,
           sidebar_tile_scroll_max>>
ivars == <<asset_groups, scan_list, scan_pos, scan_pass, scan_last,
           first_scan>>
vars == <<map_data, current_layer, selected_category, selected_tile,
          categories, textures, maps_exists, maps_dir, last_call,
          image, tiles, slice_pc,
          camera_x, camera_y, grid_enabled, sidebar_tile_scroll,
          sidebar_tile_scroll_max,
          asset_groups, scan_list, scan_pos, scan_pass, scan_last,
          first_scan>>

----------------------------------------------------------------------------
(* Bounds of the model *)

\* most placements a document holds before place is only offered on
\* occupied cells or with arguments it rejects
MaxPlaced == 3
\* largest image width and height handed to the slicer
MaxDim == 130
\* farthest the camera is panned from the origin, in tiles
MaxCamera == 1

----------------------------------------------------------------------------
(* Program constants *)

TILE_SIZE == 32
SCREEN_HEIGHT == 720
SIDEBAR_WIDTH == 300
InitWidth == 40
InitHeight == 30

map_layers == <<"terrain", "vegetation", "buildings", "decorations", "npcs">>

Range(s) == {s[i] : i \in 1..Len(s)}

LayerNames == Range(map_layers)

\* the category table of __init__, before any asset is scanned
InitCategories ==
    [terrain     |-> <<"grass", "dirt", "sand", "water", "stone">>,
     vegetation  |-> <<"tree", "bush", "flower", "plant">>,
     buildings   |-> <<"house", "shrine", "shop", "market">>,
     npcs        |-> <<"villager", "merchant", "guard", "elder">>,
     decorations |-> <<"fence", "barrel", "sign", "rock">>]

CategoryNames == DOMAIN InitCategories

----------------------------------------------------------------------------
(* Python dict as a finite function *)

EmptyDict == [k \in {} |-> TRUE]

DictSet(d, k, v) == [j \in (DOMAIN d) \cup {k} |-> IF j = k THEN v ELSE d[j]]

DictDel(d, k) == [j \in (DOMAIN d) \ {k} |-> d[j]]

----------------------------------------------------------------------------
(* Python str operations on paths and file names                           *)

\* s[i - 1]
Char(s, i) == SubSeq(s, i, i)

UpperLetters == "ABCDEFGHIJKLMNOPQRSTUVWXYZ"
LowerLetters == "abcdefghijklmnopqrstuvwxyz"

\* str.lower() of one character
Lower(c) ==
    IF \E i \in 1..26 : Char(UpperLetters, i) = c
    THEN Char(LowerLetters, CHOOSE i \in 1..26 : Char(UpperLetters, i) = c)
    ELSE c

\* s.lower(): each half lower-cased, down to the single characters
RECURSIVE str_lower(_)
str_lower(s) ==
    IF Len(s) = 0 THEN ""
    ELSE IF Len(s) = 1 THEN Lower(s)
    ELSE str_lower(SubSeq(s, 1, Len(s) \div 2))
         \o str_lower(SubSeq(s, (Len(s) \div 2) + 1, Len(s)))

\* sub in s
Contains(sub, s) ==
    \E i \in 1..(Len(s) - Len(sub) + 1) : SubSeq(s, i, i + Len(sub) - 1) = sub

\* s.endswith(suffix)
EndsWith(s, suffix) ==
    /\ Len(s) >= Len(suffix)
    /\ SubSeq(s, Len(s) - Len(suffix) + 1, Len(s)) = suffix

\* s.startswith(prefix)
StartsWith(s, prefix) ==
    /\ Len(s) >= Len(prefix)
    /\ SubSeq(s, 1, Len(prefix)) = prefix

\* the positions of character c in s
Positions(s, c) == {i \in 1..Len(s) : Char(s, i) = c}

Last(S) == CHOOSE i \in S : \A j \in S : j <= i
First(S) == CHOOSE i \in S : \A j \in S : i <= j

\* os.path.basename(path)
basename(path) ==
    IF Positions(path, "/") = {} THEN path
    ELSE SubSeq(path, Last(Positions(path, "/")) + 1, Len(path))

\* os.path.dirname(path)
dirname(path) ==
    IF Positions(path, "/") = {} THEN ""
    ELSE SubSeq(path, 1, Last(Positions(path, "/")) - 1)

\* os.path.splitext(filename)[0]: the name up to its last dot, unless
\* only dots come before that dot
splitext_root(filename) ==
    LET dots == Positions(filename, ".")
    IN IF dots # {} /\ \E j \in 1..(Last(dots) - 1) : Char(filename, j) # "."
       THEN SubSeq(filename, 1, Last(dots) - 1)
       ELSE filename

\* re.sub(r'\d+', '', s): every digit dropped, half by half
RECURSIVE remove_digits(_)
remove_digits(s) ==
    IF Len(s) = 0 THEN ""
    ELSE IF Len(s) = 1
    THEN (IF Contains(s, "0123456789") THEN "" ELSE s)
    ELSE remove_digits(SubSeq(s, 1, Len(s) \div 2))
         \o remove_digits(SubSeq(s, (Len(s) \div 2) + 1, Len(s)))

\* s.strip('_')
strip_underscores(s) ==
    LET kept == {i \in 1..Len(s) : Char(s, i) # "_"}
    IN IF kept = {} THEN "" ELSE SubSeq(s, First(kept), Last(kept))

\* s.split('_')[0]
first_token(s) ==
    IF Positions(s, "_") = {} THEN s
    ELSE SubSeq(s, 1, First(Positions(s, "_")) - 1)

\* str(n) for n >= 0, as a str
RECURSIVE str_of_nat(_)
str_of_nat(n) ==
    IF n < 10 THEN Char("0123456789", n + 1)
    ELSE str_of_nat(n \div 10) \o Char("0123456789", (n % 10) + 1)

----------------------------------------------------------------------------
(* str(int) and int(str), as the f-string of place_tile and the int() of   *)
(* render_map compute them                                                 *)

Digits == <<"0", "1", "2", "3", "4", "5", "6", "7", "8", "9">>

RECURSIVE FormatNat(_)
FormatNat(n) ==
    IF n < 10 THEN <<Digits[n + 1]>>
    ELSE FormatNat(n \div 10) \o <<Digits[(n % 10) + 1]>>

FormatInt(n) == IF n < 0 THEN <<"-">> \o FormatNat(0 - n) ELSE FormatNat(n)

\* the key with its coordinates in the other order
pos_key_swapped(x, y) == FormatInt(y) \o <<",">> \o FormatInt(x)

\* f"{x},{y}"
pos_key(x, y) == FormatInt(x) \o <<",">> \o FormatInt(y)

DigitValue(c) == CHOOSE d \in 0..9 : Digits[d + 1] = c

IsDigits(s) == Len(s) > 0 /\ \A i \in 1..Len(s) : s[i] \in Range(Digits)

RECURSIVE ParseNat(_)
ParseNat(s) ==
    IF Len(s) = 1 THEN DigitValue(s[1])
    ELSE 10 * ParseNat(SubSeq(s, 1, Len(s) - 1)) + DigitValue(s[Len(s)])

IsIntText(s) ==
    IF Len(s) > 0 /\ s[1] = "-" THEN IsDigits(Tail(s)) ELSE IsDigits(s)

ParseInt(s) == IF s[1] = "-" THEN 0 - ParseNat(Tail(s)) ELSE ParseNat(s)

\* pos_key.split(","): the pieces between the commas
Commas(k) == {i \in 1..Len(k) : k[i] = ","}

\* x, y = map(int, pos_key.split(",")) succeeds
KeyParses(k) ==
    /\ Cardinality(Commas(k)) = 1
    /\ LET c == CHOOSE i \in Commas(k) : TRUE
       IN /\ IsIntText(SubSeq(k, 1, c - 1))
          /\ IsIntText(SubSeq(k, c + 1, Len(k)))

ParseKey(k) ==
    LET c == CHOOSE i \in Commas(k) : TRUE
    IN <<ParseInt(SubSeq(k, 1, c - 1)), ParseInt(SubSeq(k, c + 1, Len(k)))>>

----------------------------------------------------------------------------
(* The map document *)

\* initialize_new_map(width, height)
initialize_new_map(width, height) ==
    [name      |-> <<"N", "e", "w", " ", "M", "a", "p">>,
     width     |-> width,
     height    |-> height,
     tile_size |-> TILE_SIZE,
     layers    |-> [l \in LayerNames |-> EmptyDict]]

\* the placements of a document, as <<layer, key>> pairs
Slots(doc) ==
    {<<l, k>> \in (DOMAIN doc.layers) \X
            UNION {DOMAIN doc.layers[l] : l \in DOMAIN doc.layers} :
        k \in DOMAIN doc.layers[l]}

\* the number of placements of a document, over all its layers
Placed(doc) == Cardinality(Slots(doc))

----------------------------------------------------------------------------
(* What scan_project_assets leaves in self.categories and self.textures    *)
(* when it finds three assets                                              *)

\* Python's None
None == "<None>"

\* the truth value Python gives a tile type name: None and "" are false
Truthy(t) == t # None /\ t # ""

NoTextures == [c \in CategoryNames |-> EmptyDict]

\* a 32x32 grass.png, a 70x70 walls.png sheet that no unit divides, and a
\* _crate.png whose first underscore-delimited token is the empty string
FoundCategories ==
    [InitCategories EXCEPT
        !.terrain = Append(@, "walls_1"),
        !.decorations = Append(@, "")]

FoundTextures ==
    [NoTextures EXCEPT
        !.terrain =
            ("grass" :> [path |-> "assets/terrain/grass.png",
                         is_sliced |-> FALSE,
                         group |-> "grass",
                         original_size |-> <<32, 32>>])
            @@
            ("walls_1" :> [path |-> "assets/tilesets/walls.png",
                           tileset_index |-> 0,
                           is_sliced |-> TRUE,
                           group |-> "walls",
                           original_size |-> <<70, 70>>]),
        !.decorations =
            ("" :> [path |-> "assets/props/_crate.png",
                    is_sliced |-> FALSE,
                    group |-> "crate",
                    original_size |-> <<32, 32>>])]

----------------------------------------------------------------------------
(* place_tile and remove_tile *)

\* the map coordinates a click is converted to: two cells of the initial
\* 40x30 grid and one cell beyond each of its four edges
ClickCells ==
    {<<0, 0>>, <<InitWidth - 1, InitHeight - 1>>,
     <<0 - 1, 0>>, <<0, 0 - 1>>, <<InitWidth, 0>>, <<0, InitHeight>>}

NoFile == <<>>

\* after: for load_map, the operation that ran just before it
Call(op, x, y, file, result) ==
    [op |-> op, x |-> x, y |-> y, file |-> file, result |-> result,
     after |-> ""]

Loaded(file, result) ==
    [op |-> "load_map", x |-> 0, y |-> 0, file |-> file, result |-> result,
     after |-> last_call.op]

\* the bounds test with > where the code has >=
OutOfBoundsOffByOne(x, y) ==
    x < 0 \/ y < 0 \/ x > map_data.width \/ y > map_data.height

\* the bounds test of place_tile and remove_tile
OutOfBounds(x, y) ==
    x < 0 \/ y < 0 \/ x >= map_data.width \/ y >= map_data.height

\* the texture lookup of place_tile
HasTexture ==
    /\ selected_category \in DOMAIN textures
    /\ selected_tile \in DOMAIN textures[selected_category]

\* texture_info.get("tileset_index", 0)
TilesetIndex(texture_info) ==
    IF "tileset_index" \in DOMAIN texture_info
    THEN texture_info.tileset_index ELSE 0

\* the record place_tile builds
tile_data(x, y) ==
    LET base == [type |-> selected_tile, x |-> x, y |-> y,
                 layer |-> current_layer]
    IN IF HasTexture
       THEN LET texture_info == textures[selected_category][selected_tile]
            IN base @@
               [path |-> texture_info.path,
                source_category |-> selected_category,
                is_sliced |-> texture_info.is_sliced,
                tileset_index |-> TilesetIndex(texture_info)]
       ELSE base

\* the record stored on the terrain layer whatever the current layer is
StoreTileOnTerrain(x, y) ==
    [map_data EXCEPT
        !.layers["terrain"] = DictSet(@, pos_key(x, y), tile_data(x, y))]

\* the record stored as the only placement of the current layer
StoreTileAlone(x, y) ==
    [map_data EXCEPT
        !.layers[current_layer] = (pos_key(x, y) :> tile_data(x, y))]

\* self.map_data["layers"][self.current_layer][pos_key] = tile_data
StoreTile(x, y) ==
    [map_data EXCEPT
        !.layers[current_layer] = DictSet(@, pos_key(x, y), tile_data(x, y))]

\* (a current layer the document lacks raises KeyError: no step is taken)
place_tile(x, y) ==
    /\ current_layer \in DOMAIN map_data.layers
    /\ IF OutOfBounds(x, y)
       THEN /\ map_data' = map_data
            /\ last_call' = Call("place_tile", x, y, NoFile, "out_of_bounds")
       ELSE IF ~Truthy(selected_tile)
       THEN /\ map_data' = map_data
            /\ last_call' = Call("place_tile", x, y, NoFile, "no_tile")
       ELSE /\ map_data' = StoreTile(x, y)
            /\ last_call' = Call("place_tile", x, y, NoFile, "placed")
    /\ UNCHANGED <<current_layer, selected_category, selected_tile,
                   categories, textures, maps_exists, maps_dir>>

\* the deletion that also drops a layer it has emptied
DeleteTilePruning(x, y) ==
    LET layer == DictDel(map_data.layers[current_layer], pos_key(x, y))
    IN IF DOMAIN layer = {}
       THEN [map_data EXCEPT !.layers = DictDel(@, current_layer)]
       ELSE [map_data EXCEPT !.layers[current_layer] = layer]

\* del self.map_data["layers"][self.current_layer][pos_key]
DeleteTile(x, y) ==
    [map_data EXCEPT !.layers[current_layer] = DictDel(@, pos_key(x, y))]

\* the removal that clears the cell on every layer
remove_tile_every_layer(x, y) ==
    /\ IF OutOfBounds(x, y)
       THEN /\ map_data' = map_data
            /\ last_call' = Call("remove_tile", x, y, NoFile, "out_of_bounds")
       ELSE /\ map_data' =
                  [map_data EXCEPT
                      !.layers = [l \in DOMAIN @ |-> DictDel(@[l], pos_key(x, y))]]
            /\ last_call' = Call("remove_tile", x, y, NoFile, "removed")
    /\ UNCHANGED <<current_layer, selected_category, selected_tile,
                   categories, textures, maps_exists, maps_dir>>

remove_tile(x, y) ==
    /\ current_layer \in DOMAIN map_data.layers
    /\ IF OutOfBounds(x, y)
       THEN /\ map_data' = map_data
            /\ last_call' = Call("remove_tile", x, y, NoFile, "out_of_bounds")
       ELSE IF pos_key(x, y) \in DOMAIN map_data.layers[current_layer]
       THEN /\ map_data' = DeleteTile(x, y)
            /\ last_call' = Call("remove_tile", x, y, NoFile, "removed")
       ELSE /\ map_data' = map_data
            /\ last_call' = Call("remove_tile", x, y, NoFile, "absent")
    /\ UNCHANGED <<current_layer, selected_category, selected_tile,
                   categories, textures, maps_exists, maps_dir>>

\* place_tile grows the document only while it holds fewer than cap
\* placements; a rejected call and an overwrite are always offered
Grows(x, y) ==
    /\ ~OutOfBounds(x, y)
    /\ Truthy(selected_tile)
    /\ pos_key(x, y) \notin DOMAIN map_data.layers[current_layer]

Place(cap) ==
    \E c \in ClickCells :
        /\ Grows(c[1], c[2]) => Placed(map_data) < cap
        /\ place_tile(c[1], c[2])

Remove == \E c \in ClickCells : remove_tile(c[1], c[2])

----------------------------------------------------------------------------
(* Layer keys and sidebar selection *)

\* handle_key_press: K_1 .. K_5 set the current layer
LayerOfKey ==
    <<"terrain", "vegetation", "buildings", "decorations", "npcs">>

\* the layer keys pressed: K_1 and K_2
PressedKeys == {1, 2}

SwitchLayer ==
    \E k \in PressedKeys :
        /\ current_layer' = LayerOfKey[k]
        /\ last_call' = Call("key_layer", k, 0, NoFile, "switched")
        /\ UNCHANGED <<map_data, selected_category, selected_tile,
                       categories, textures, maps_exists, maps_dir>>

\* handle_sidebar_click, a click on a category header
\* the category headers clicked
ClickedCategories == {"terrain", "decorations"}

SelectCategory ==
    \E category \in ClickedCategories :
        /\ selected_category' = category
        /\ current_layer' = category
        /\ sidebar_tile_scroll' = 0
        /\ selected_tile' =
               IF Len(categories[category]) > 0
               THEN categories[category][1] ELSE None
        /\ last_call' = Call("click_category", 0, 0, NoFile, "selected")
        /\ UNCHANGED <<map_data, categories, textures, maps_exists, maps_dir,
                       camera_x, camera_y, grid_enabled,
                       sidebar_tile_scroll_max>>

\* the layout of the tile area: tiles_y, tiles_per_row, visible_rows
tiles_y == 60 + (35 * Cardinality(DOMAIN categories)) + 25
tiles_per_row == (SIDEBAR_WIDTH - 20) \div 40
visible_rows == (SCREEN_HEIGHT - tiles_y - 120) \div 40

\* math.ceil(total_tiles / tiles_per_row)
total_rows(total_tiles) == (total_tiles + tiles_per_row - 1) \div tiles_per_row

\* max(0, total_rows - visible_rows)
scroll_limit(total_tiles) ==
    IF total_rows(total_tiles) - visible_rows > 0
    THEN total_rows(total_tiles) - visible_rows ELSE 0

\* self.categories[self.selected_category][start_index:end_index]
visible_tiles ==
    LET list == categories[selected_category]
        start_index == sidebar_tile_scroll * tiles_per_row
        reach == start_index + (visible_rows * tiles_per_row)
        end_index == IF reach < Len(list) THEN reach ELSE Len(list)
    IN SubSeq(list, start_index + 1, end_index)

\* the tiles a click is tried on: the first and the last of those shown
ClickedTiles ==
    IF visible_tiles = <<>> THEN {}
    ELSE {visible_tiles[i] : i \in {1, Len(visible_tiles)}}

\* where a click below the category headers lands: on a scroll button's
\* rectangle or on a tile shown
ClickTargets ==
    {<<"button", "up">>, <<"button", "down">>}
        \cup {<<"tile", tile>> : tile \in ClickedTiles}

\* handle_sidebar_click, a click below the category headers: the scroll
\* limit is set, then the scroll buttons and the tiles shown are tried
SelectTile ==
    /\ Truthy(selected_category)
    /\ Len(categories[selected_category]) > 0
    /\ LET total_tiles == Len(categories[selected_category])
           buttons == total_tiles > visible_rows * tiles_per_row
       IN /\ sidebar_tile_scroll_max' = scroll_limit(total_tiles)
          /\ \E target \in ClickTargets :
                IF buttons /\ target = <<"button", "up">>
                      /\ sidebar_tile_scroll > 0
                THEN /\ sidebar_tile_scroll' = sidebar_tile_scroll - 1
                     /\ selected_tile' = selected_tile
                     /\ last_call' =
                            Call("click_scroll", 0, 0, NoFile, "up")
                ELSE IF buttons /\ target = <<"button", "down">>
                      /\ sidebar_tile_scroll < sidebar_tile_scroll_max'
                THEN /\ sidebar_tile_scroll' = sidebar_tile_scroll + 1
                     /\ selected_tile' = selected_tile
                     /\ last_call' =
                            Call("click_scroll", 0, 0, NoFile, "down")
                ELSE IF target[1] = "tile"
                THEN /\ sidebar_tile_scroll' = sidebar_tile_scroll
                     /\ selected_tile' = target[2]
                     /\ last_call' =
                            Call("click_tile", 0, 0, NoFile, "selected")
                ELSE /\ sidebar_tile_scroll' = sidebar_tile_scroll
                     /\ selected_tile' = selected_tile
                     /\ last_call' =
                            Call("click_tile", 0, 0, NoFile, "missed")
    /\ UNCHANGED <<map_data, current_layer, selected_category,
                   categories, textures, maps_exists, maps_dir,
                   camera_x, camera_y, grid_enabled>>

\* handle_events, MOUSEBUTTONDOWN with button 4 or 5: the wheel scrolls
\* the tile area while the pointer is over the sidebar
MouseWheel ==
    \E button \in {4, 5}, over_sidebar \in BOOLEAN :
        /\ sidebar_tile_scroll' =
               IF ~over_sidebar THEN sidebar_tile_scroll
               ELSE IF button = 4
               THEN (IF sidebar_tile_scroll - 1 > 0
                     THEN sidebar_tile_scroll - 1 ELSE 0)
               ELSE (IF sidebar_tile_scroll + 1 < sidebar_tile_scroll_max
                     THEN sidebar_tile_scroll + 1
                     ELSE sidebar_tile_scroll_max)
        /\ last_call' = Call("wheel", button, 0, NoFile,
                             IF over_sidebar THEN "scrolled" ELSE "ignored")
        /\ UNCHANGED <<map_data, current_layer, selected_category,
                       selected_tile, categories, textures, maps_exists,
                       maps_dir, camera_x, camera_y, grid_enabled,
                       sidebar_tile_scroll_max>>

----------------------------------------------------------------------------
(* json.dump and json.load.  A JSON text is the tree of its values, each   *)
(* tagged with its JSON type; an object is the mapping of its members.     *)

JNumber(n) == [t |-> "number", n |-> n]
JString(s) == [t |-> "string", s |-> s]
JBool(b) == [t |-> IF b THEN "true" ELSE "false"]
JObject(m) == [t |-> "object", m |-> m]
\* a file that holds no JSON text
NotJson == [t |-> "invalid"]

\* the dump that leaves the tileset index out
dump_tile_without_index(td) ==
    JObject([f \in (DOMAIN td) \ {"tileset_index"} |->
        IF f \in {"x", "y"} THEN JNumber(td[f])
        ELSE IF f = "is_sliced" THEN JBool(td[f])
        ELSE JString(td[f])])

\* json.dump of one placement: int -> number, bool -> true/false, str -> string
dump_tile(td) ==
    JObject([f \in DOMAIN td |->
        IF f \in {"x", "y", "tileset_index"} THEN JNumber(td[f])
        ELSE IF f = "is_sliced" THEN JBool(td[f])
        ELSE JString(td[f])])

dump_layer(layer) == JObject([k \in DOMAIN layer |-> dump_tile(layer[k])])

\* json.dump(self.map_data, f, indent=2)
json_dump(doc) ==
    JObject(
        [name      |-> JString(doc.name),
         width     |-> JNumber(doc.width),
         height    |-> JNumber(doc.height),
         tile_size |-> JNumber(doc.tile_size),
         layers    |-> JObject([l \in DOMAIN doc.layers |->
                                    dump_layer(doc.layers[l])])])

\* json.load(f): the Python value of a JSON value
RECURSIVE json_load(_)
json_load(j) ==
    IF j.t = "number" THEN j.n
    ELSE IF j.t = "string" THEN j.s
    ELSE IF j.t = "true" THEN TRUE
    ELSE IF j.t = "false" THEN FALSE
    ELSE [k \in DOMAIN j.m |-> json_load(j.m[k])]

----------------------------------------------------------------------------
(* File names of the maps directory *)

JsonSuffix == <<".", "j", "s", "o", "n">>

\* f"{self.map_data['name'].replace(' ', '_').lower()}.json"
save_filename(name) ==
    [i \in 1..Len(name) |-> Lower(IF name[i] = " " THEN "_" ELSE name[i])]
        \o JsonSuffix

\* f.endswith('.json')
EndsWithJson(f) ==
    /\ Len(f) >= Len(JsonSuffix)
    /\ SubSeq(f, Len(f) - Len(JsonSuffix) + 1, Len(f)) = JsonSuffix

\* map_files = [f for f in os.listdir(maps_dir) if f.endswith('.json')]
map_files == {f \in DOMAIN maps_dir : EndsWithJson(f)}

\* save_map: the maps directory is created when absent, the file written
save_map ==
    /\ maps_exists' = TRUE
    /\ maps_dir' = DictSet(maps_dir, save_filename(map_data.name),
                           json_dump(map_data))
    /\ last_call' = Call("save_map", 0, 0, save_filename(map_data.name), "saved")
    /\ UNCHANGED <<map_data, current_layer, selected_category, selected_tile,
                   categories, textures>>

\* load_map: map_files[0] is the first name os.listdir returns, and
\* os.listdir returns the names in arbitrary order
load_map ==
    /\ IF ~maps_exists
       THEN /\ map_data' = map_data
            /\ last_call' = Loaded(NoFile, "no_directory")
       ELSE IF map_files = {}
       THEN /\ map_data' = map_data
            /\ last_call' = Loaded(NoFile, "no_files")
       ELSE \E f \in map_files :
            IF maps_dir[f] = NotJson
            THEN /\ map_data' = map_data
                 /\ last_call' = Loaded(f, "error")
            ELSE /\ map_data' = json_load(maps_dir[f])
                 /\ last_call' = Loaded(f, "loaded")
    /\ UNCHANGED <<current_layer, selected_category, selected_tile,
                   categories, textures, maps_exists, maps_dir>>

----------------------------------------------------------------------------
(* handle_key_press(key), with the modifier keys pygame.key.get_mods()     *)
(* reports for the event                                                   *)

\* a branch that changes view state only
KeyDone(result) ==
    /\ last_call' = Call("key_press", 0, 0, NoFile, result)
    /\ UNCHANGED <<map_data, selected_category, selected_tile, categories,
                   textures, maps_exists, maps_dir, sidebar_tile_scroll_max>>

NumberKeys == <<"K_1", "K_2", "K_3", "K_4", "K_5">>

handle_key_press(key, ctrl, shift) ==
    IF key \in {"K_LEFT", "K_a"}
    THEN /\ camera_x' = camera_x - TILE_SIZE
         /\ KeyDone("left")
         /\ UNCHANGED <<current_layer, camera_y, grid_enabled,
                        sidebar_tile_scroll>>
    ELSE IF key \in {"K_RIGHT", "K_d"}
    THEN /\ camera_x' = camera_x + TILE_SIZE
         /\ KeyDone("right")
         /\ UNCHANGED <<current_layer, camera_y, grid_enabled,
                        sidebar_tile_scroll>>
    ELSE IF key \in {"K_UP", "K_w"}
    THEN /\ IF shift
            THEN /\ sidebar_tile_scroll' =
                        IF sidebar_tile_scroll - 1 > 0
                        THEN sidebar_tile_scroll - 1 ELSE 0
                 /\ camera_y' = camera_y
            ELSE /\ camera_y' = camera_y - TILE_SIZE
                 /\ sidebar_tile_scroll' = sidebar_tile_scroll
         /\ KeyDone("up")
         /\ UNCHANGED <<current_layer, camera_x, grid_enabled>>
    ELSE IF key \in {"K_DOWN", "K_s"}
    THEN /\ IF shift
            THEN /\ sidebar_tile_scroll' =
                        IF sidebar_tile_scroll + 1 < sidebar_tile_scroll_max
                        THEN sidebar_tile_scroll + 1
                        ELSE sidebar_tile_scroll_max
                 /\ camera_y' = camera_y
            ELSE /\ camera_y' = camera_y + TILE_SIZE
                 /\ sidebar_tile_scroll' = sidebar_tile_scroll
         /\ KeyDone("down")
         /\ UNCHANGED <<current_layer, camera_x, grid_enabled>>
    ELSE IF key = "K_g"
    THEN /\ grid_enabled' = ~grid_enabled
         /\ KeyDone("grid")
         /\ UNCHANGED <<current_layer, camera_x, camera_y,
                        sidebar_tile_scroll>>
    ELSE IF key = "K_s" /\ ctrl
    THEN save_map /\ UNCHANGED kvars
    ELSE IF key = "K_l" /\ ctrl
    THEN load_map /\ UNCHANGED kvars
    ELSE IF key \in Range(NumberKeys)
    THEN /\ current_layer' =
                LayerOfKey[CHOOSE k \in 1..5 : NumberKeys[k] = key]
         /\ KeyDone("layer")
         /\ UNCHANGED kvars
    ELSE /\ KeyDone("ignored")
         /\ UNCHANGED <<current_layer, kvars>>

\* the keys pressed: one of each branch, and one no branch handles
Keys ==
    {"K_LEFT", "K_d", "K_UP", "K_DOWN", "K_s", "K_g", "K_l", "K_3", "K_x"}

\* the camera stays within MaxCamera tiles of the origin
CameraNear(x, y) ==
    /\ x <= MaxCamera * TILE_SIZE /\ 0 - x <= MaxCamera * TILE_SIZE
    /\ y <= MaxCamera * TILE_SIZE /\ 0 - y <= MaxCamera * TILE_SIZE

KeyDown ==
    \E key \in Keys, ctrl \in BOOLEAN, shift \in BOOLEAN :
        /\ handle_key_press(key, ctrl, shift)
        /\ CameraNear(camera_x', camera_y')

----------------------------------------------------------------------------
(* The tileset slicer.  An image is its size; a tile is the rectangle of   *)
(* the image it shows (the image itself is the rectangle at 0,0 of its     *)
(* own size).                                                              *)

Rect(x, y, w, h) == [x |-> x, y |-> y, w |-> w, h |-> h]

\* the list [image]
Unsliced(width, height) == <<Rect(0, 0, width, height)>>

\* for size in [16, 24, 32, 48, 64]
CandidateSizes == <<16, 24, 32, 48, 64>>

\* the candidates that divide both dimensions, by position in the list
Dividing(width, height) ==
    {i \in 1..Len(CandidateSizes) :
        width % CandidateSizes[i] = 0 /\ height % CandidateSizes[i] = 0}

\* the size a probing loop without its break ends on
LastDividing(width, height) ==
    CandidateSizes[CHOOSE i \in Dividing(width, height) :
                       \A j \in Dividing(width, height) : i >= j]

\* the size the probing loop breaks on
FirstDividing(width, height) ==
    CandidateSizes[CHOOSE i \in Dividing(width, height) :
                       \A j \in Dividing(width, height) : i <= j]

\* range(0, stop, step) as a sequence
StepRange(stop, step) ==
    [i \in 1..((stop + step - 1) \div step) |-> (i - 1) * step]

\* the inner loop: the tiles of the row at y, left to right
RECURSIVE SliceRow(_, _, _, _, _)
SliceRow(xs, y, width, height, tile_size) ==
    IF xs = <<>> THEN <<>>
    ELSE (IF Head(xs) + tile_size <= width /\ y + tile_size <= height
          THEN <<Rect(Head(xs), y, tile_size, tile_size)>>
          ELSE <<>>)
         \o SliceRow(Tail(xs), y, width, height, tile_size)

\* the outer loop: the rows, top to bottom
RECURSIVE SliceRows(_, _, _, _)
SliceRows(ys, width, height, tile_size) ==
    IF ys = <<>> THEN <<>>
    ELSE SliceRow(StepRange(width, tile_size), Head(ys), width, height, tile_size)
         \o SliceRows(Tail(ys), width, height, tile_size)

\* the same test asking both dimensions to be small
TinyImageBoth(width, height, tile_size) ==
    width < tile_size /\ height < tile_size

\* the test "Skip tiny images"
TinyImage(width, height, tile_size) == width < tile_size \/ height < tile_size

\* the same test with < where the code has <=
SingleImageStrict(width, height) == width < 64 /\ height < 64

\* the test "Handle large single images that might not be tilesets"
SingleImage(width, height) == width <= 64 /\ height <= 64

slice_tilesheet(width, height, tile_size) ==
    IF TinyImage(width, height, tile_size) THEN Unsliced(width, height)
    ELSE IF SingleImage(width, height) THEN Unsliced(width, height)
    ELSE IF Dividing(width, height) = {} THEN Unsliced(width, height)
    ELSE LET size == FirstDividing(width, height)
         IN SliceRows(StepRange(height, size), width, height, size)

\* image sizes tried: the multiples of 8 and their neighbours, up to MaxDim
Dims == {d \in 1..MaxDim : d % 8 \in {0, 1, 7}}

NoImage == [w |-> 0, h |-> 0]

\* slice_tilesheet(orig_texture), with the default tile_size=32
Slice ==
    /\ slice_pc = "ready"
    /\ tiles' = slice_tilesheet(image.w, image.h, TILE_SIZE)
    /\ slice_pc' = "sliced"
    /\ UNCHANGED <<image, map_data, current_layer, selected_category,
                   selected_tile, categories, textures, maps_exists,
                   maps_dir, last_call, kvars, ivars>>

----------------------------------------------------------------------------
(* _process_asset_file.  An asset is an image file: its path, the size of  *)
(* the image, and what pygame.image.load does with it ("ok", or the        *)
(* exception it raises).  A texture is the part of the image it shows and  *)
(* the size it was scaled to.                                              *)

\* any(kw in path_lower for kw in keywords)
AnyIn(keywords, path_lower) == \E kw \in keywords : Contains(kw, path_lower)

\* the chain tested from its last group to its first
path_category_reversed(path_lower) ==
    IF AnyIn({"item", "prop", "decoration"}, path_lower) THEN "decorations"
    ELSE IF AnyIn({"character", "npc", "people"}, path_lower) THEN "npcs"
    ELSE IF AnyIn({"build", "house", "structure"}, path_lower)
    THEN "buildings"
    ELSE IF AnyIn({"tree", "bush", "plant", "nature"}, path_lower)
    THEN "vegetation"
    ELSE IF AnyIn({"tile", "terrain", "ground"}, path_lower) THEN "terrain"
    ELSE None

\* the if / elif chain over the keyword groups; None when none matches
path_category(path_lower) ==
    IF AnyIn({"tile", "terrain", "ground"}, path_lower) THEN "terrain"
    ELSE IF AnyIn({"tree", "bush", "plant", "nature"}, path_lower)
    THEN "vegetation"
    ELSE IF AnyIn({"build", "house", "structure"}, path_lower)
    THEN "buildings"
    ELSE IF AnyIn({"character", "npc", "people"}, path_lower) THEN "npcs"
    ELSE IF AnyIn({"item", "prop", "decoration"}, path_lower)
    THEN "decorations"
    ELSE None

\* category = default_category; if not category: ... else "terrain"
asset_category(filepath, default_category) ==
    IF Truthy(default_category) THEN default_category
    ELSE IF path_category(str_lower(filepath)) # None
    THEN path_category(str_lower(filepath))
    ELSE "terrain"

tileset_paths == <<"Tilesets", "tileset", "tiles", "walls", "Market_Stalls">>

\* is_tileset = any(ts in path_lower for ts in tileset_paths)
is_tileset(path_lower) == AnyIn(Range(tileset_paths), path_lower)

\* name_without_ext
name_without_ext(filepath) == str_lower(splitext_root(basename(filepath)))

\* base_group_name = re.sub(r'\d+', '', name_without_ext).strip('_')
base_group_name(filepath) ==
    strip_underscores(remove_digits(name_without_ext(filepath)))

\* (width > 64 and height > 64) or is_tileset
TreatedAsSheet(asset) ==
    (asset.width > 64 /\ asset.height > 64)
        \/ is_tileset(str_lower(asset.filepath))

\* the surface scaled to TILE_SIZE x TILE_SIZE
Texture(filepath, rect) ==
    [image |-> filepath, rect |-> rect, size |-> <<TILE_SIZE, TILE_SIZE>>]

\* the category list left as it is
AddToCategoryNever(list, tile_type) == list

\* if tile_type not in self.categories[category]: ....append(tile_type)
AddToCategory(list, tile_type) ==
    IF tile_type \in Range(list) THEN list ELSE Append(list, tile_type)

\* the tile type appended to the group's tiles with no membership test
AddToGroupAlways(list, tile_type) == Append(list, tile_type)

\* if tile_type not in ...["tiles"]: ...["tiles"].append(tile_type)
AddToGroup(list, tile_type) ==
    IF tile_type \in Range(list) THEN list ELSE Append(list, tile_type)

\* the three tables a call of _process_asset_file works on
Tables(cats, texs, groups) ==
    [categories |-> cats, textures |-> texs, asset_groups |-> groups]

\* the loop over enumerate(tile_surfaces) works on three tables that do
\* not read one another, so it is taken one table at a time

\* the keys numbered from 0
SliceKeysFromZero(stem, count) ==
    [n \in 1..count |-> stem \o "_" \o str_of_nat(n - 1)]

\* the keys of the loop: f"{name_without_ext}_{i+1}" for i = 0, 1, ...
SliceKeys(stem, count) == [n \in 1..count |-> stem \o "_" \o str_of_nat(n)]

\* the loop's appends to self.categories[category], with no membership
\* test
AddKeysToCategoryAlways(list, keys) == list \o keys

\* the loop's appends to self.categories[category]: the keys of one image
\* differ from one another, so a key is appended when the list did not
\* hold it before the loop
AddKeysToCategory(list, keys) ==
    list \o SelectSeq(keys, LAMBDA k : k \notin Range(list))

\* the loop's appends to the group's tiles, with no membership test
AddKeysToGroupAlways(list, keys) == list \o keys

\* the loop's appends to the group's tiles
AddKeysToGroup(list, keys) ==
    list \o SelectSeq(keys, LAMBDA k : k \notin Range(list))

\* the entry the loop stores for the surface at position n (i = n - 1)
SlicedEntry(filepath, group, surface, n) ==
    [texture |-> Texture(filepath, surface),
     path |-> filepath,
     tileset_index |-> n - 1,
     is_sliced |-> TRUE,
     group |-> group,
     original_size |-> <<surface.w, surface.h>>]

\* the loop's assignments textures[category][tile_type] = {...}
StoreSlices(entries, filepath, group, tile_surfaces, keys) ==
    [k \in (DOMAIN entries) \cup Range(keys) |->
        IF k \in Range(keys)
        THEN LET n == CHOOSE n \in 1..Len(keys) : keys[n] = k
             IN SlicedEntry(filepath, group, tile_surfaces[n], n)
        ELSE entries[k]]

\* the branch of an image treated as a tileset
ProcessSheet(t, asset, category) ==
    LET tile_surfaces ==
            slice_tilesheet(asset.width, asset.height, TILE_SIZE)
        group == base_group_name(asset.filepath)
        keys == SliceKeys(name_without_ext(asset.filepath),
                          Len(tile_surfaces))
        grouped ==
            IF group \in DOMAIN t.asset_groups THEN t.asset_groups
            ELSE DictSet(t.asset_groups, group,
                     [category |-> category,
                      tiles |-> <<>>,
                      preview |-> IF Len(tile_surfaces) > 0
                                  THEN tile_surfaces[1] ELSE None])
    IN Tables(
           [t.categories EXCEPT ![category] = AddKeysToCategory(@, keys)],
           [t.textures EXCEPT
               ![category] = StoreSlices(@, asset.filepath, group,
                                         tile_surfaces, keys)],
           [grouped EXCEPT ![group].tiles = AddKeysToGroup(@, keys)])

\* for t in self.categories[category]: if t in name_without_ext: ... break
MatchedTileType(list, stem) ==
    LET hits == {i \in 1..Len(list) : Contains(list[i], stem)}
    IN IF hits = {} THEN None ELSE list[First(hits)]

\* the tile type of a single image: the matched one, else the first token
SingleTileType(list, stem) ==
    IF Truthy(MatchedTileType(list, stem)) THEN MatchedTileType(list, stem)
    ELSE first_token(stem)

\* the branch of a single image
ProcessSingle(t, asset, category) ==
    LET stem == name_without_ext(asset.filepath)
        group == base_group_name(asset.filepath)
        list == t.categories[category]
        tile_type == SingleTileType(list, stem)
        whole == Rect(0, 0, asset.width, asset.height)
    IN Tables(
           IF Truthy(MatchedTileType(list, stem)) THEN t.categories
           ELSE [t.categories EXCEPT
                    ![category] = AddToCategory(@, tile_type)],
           [t.textures EXCEPT
               ![category] = DictSet(@, tile_type,
                   [texture |-> Texture(asset.filepath, whole),
                    path |-> asset.filepath,
                    is_sliced |-> FALSE,
                    group |-> group,
                    original_size |-> <<asset.width, asset.height>>])],
           IF group \in DOMAIN t.asset_groups
           THEN [t.asset_groups EXCEPT
                    ![group].tiles = AddToGroup(@, tile_type)]
           ELSE DictSet(t.asset_groups, group,
                    [category |-> category,
                     tiles |-> <<tile_type>>,
                     preview |-> whole]))

\* what pygame.image.load does with the file
LoadResults == {"ok", "pygame.error", "FileNotFoundError"}

\* how the call ends: pygame.error is caught at line 418; any other
\* exception of the load is caught at line 420, where tile_type is not yet
\* bound, and the UnboundLocalError that raises is caught at line 454
process_outcome(asset) ==
    IF asset.load = "pygame.error" THEN "load_error"
    ELSE IF asset.load # "ok" THEN "processing_error"
    ELSE IF TreatedAsSheet(asset) THEN "sliced"
    ELSE "single"

\* the call that goes on as if every image had loaded
process_asset_file_whatever_loads(t, asset, default_category) ==
    LET category == asset_category(asset.filepath, default_category)
    IN IF TreatedAsSheet(asset) THEN ProcessSheet(t, asset, category)
       ELSE ProcessSingle(t, asset, category)

\* self._process_asset_file(filepath, textures, tileset_paths, default_category)
process_asset_file(t, asset, default_category) ==
    LET category == asset_category(asset.filepath, default_category)
    IN IF asset.load # "ok" THEN t
       ELSE IF TreatedAsSheet(asset) THEN ProcessSheet(t, asset, category)
       ELSE ProcessSingle(t, asset, category)

----------------------------------------------------------------------------
(* scan_project_assets.  The disk is the list of the files below the       *)
(* working directory, in the order os.walk yields them; a directory is     *)
(* there when a file lies below it.                                        *)

\* os.getcwd()
Cwd == "/srv/game"

asset_dirs == <<"asset_packs", "src/assets", "assets">>

known_assets ==
    <<"asset_packs/extracted_assets/Ninja Adventure - Asset Pack/Tilesets/TilesetHouse.png",
      "asset_packs/extracted_assets/mystic_woods_free_2.2/sprites/tilesets/walls/walls.png",
      "asset_packs/extracted_assets/Cute_Fantasy_Fre/Tiles/Market_Stalls.png",
      "asset_packs/extracted_assets/mystic_woods_free_2.2/sprites/objects">>

\* os.path.join(a, b) for a relative b
join(a, b) == a \o "/" \o b

\* f.lower().endswith(('.png', '.jpg'))
IsImageName(f) ==
    EndsWith(str_lower(f), ".png") \/ EndsWith(str_lower(f), ".jpg")

\* os.path.isdir(path)
isdir(disk, path) ==
    \E i \in 1..Len(disk) : StartsWith(disk[i].filepath, path \o "/")

\* os.path.isfile(path)
isfile(disk, path) == \E i \in 1..Len(disk) : disk[i].filepath = path

\* the concatenation of a list of lists
RECURSIVE Flatten(_)
Flatten(lists) ==
    IF lists = <<>> THEN <<>> ELSE Head(lists) \o Flatten(Tail(lists))

\* the directories os.walk(top) finds files in, in the order it reaches them
RECURSIVE Roots(_, _, _)
Roots(disk, top, seen) ==
    IF disk = <<>> THEN <<>>
    ELSE LET root == dirname(Head(disk).filepath)
         IN IF StartsWith(Head(disk).filepath, top \o "/") /\ root \notin seen
            THEN <<root>> \o Roots(Tail(disk), top, seen \cup {root})
            ELSE Roots(Tail(disk), top, seen)

\* [f for f in files if f.lower().endswith(('.png', '.jpg'))], for the
\* files of the directory root
image_files(disk, root) ==
    SelectSeq(disk, LAMBDA f : dirname(f.filepath) = root
                               /\ IsImageName(basename(f.filepath)))

\* one call of _process_asset_file
ScanCall(file, default_category, via) ==
    [asset |-> file, default_category |-> default_category, via |-> via]

\* the calls the loop over known_assets makes for one entry
KnownCalls(disk, known) ==
    LET full_path == join(Cwd, known)
    IN IF isdir(disk, full_path)
       THEN Flatten(
                [r \in 1..Len(Roots(disk, full_path, {})) |->
                    LET files == image_files(disk,
                                     Roots(disk, full_path, {})[r])
                    IN [i \in 1..Len(files) |->
                           ScanCall(files[i], None, "known_assets")]])
       ELSE IF isfile(disk, full_path) /\ IsImageName(full_path)
       THEN <<ScanCall(
                  disk[CHOOSE i \in 1..Len(disk) :
                           disk[i].filepath = full_path],
                  None, "known_assets")>>
       ELSE <<>>

\* the known_assets entries that are directories on this disk
KnownDirs(disk) ==
    {known \in Range(known_assets) : isdir(disk, join(Cwd, known))}

\* the walk that skips no directory
SkippedNever(disk, root) == FALSE

\* any(known in root for known in known_assets if ... os.path.isdir(...))
Skipped(disk, root) ==
    \E known \in KnownDirs(disk) : Contains(known, root)

\* image_files[:5]
FirstFive(files) ==
    SubSeq(files, 1, IF Len(files) < 5 THEN Len(files) ELSE 5)

\* the calls the walk makes in one directory
RootCalls(disk, root) ==
    LET files == image_files(disk, root)
        category == path_category(str_lower(root))
    IN IF Skipped(disk, root) \/ files = <<>> \/ ~Truthy(category)
       THEN <<>>
       ELSE [i \in 1..Len(FirstFive(files)) |->
                ScanCall(files[i], category, "asset_dirs")]

\* the calls the loop over asset_dirs makes for one entry
DirCalls(disk, base_dir) ==
    LET base_path == join(Cwd, base_dir)
    IN IF ~(isdir(disk, base_path) \/ isfile(disk, base_path)) THEN <<>>
       ELSE Flatten(
                [r \in 1..Len(Roots(disk, base_path, {})) |->
                    RootCalls(disk, Roots(disk, base_path, {})[r])])

\* the calls of _process_asset_file one scan makes, in order
ScanCalls(disk) ==
    Flatten([k \in 1..Len(known_assets) |-> KnownCalls(disk, known_assets[k])])
    \o Flatten([d \in 1..Len(asset_dirs) |-> DirCalls(disk, asset_dirs[d])])

\* the calls of a list made one after the other
RECURSIVE ProcessAll(_, _)
ProcessAll(t, calls) ==
    IF calls = <<>> THEN t
    ELSE ProcessAll(
             process_asset_file(t, Head(calls).asset,
                                Head(calls).default_category),
             Tail(calls))

----------------------------------------------------------------------------
(* The disks scanned *)

File(path, width, height, load) ==
    [filepath |-> join(Cwd, path), width |-> width, height |-> height,
     load |-> load]

MysticSprites == "asset_packs/extracted_assets/mystic_woods_free_2.2/sprites"

\* the sizes walls.png comes in: a 128x96 sheet, a 70x70 image no
\* candidate divides, a 48x48 image
WallsSizes == {<<128, 96>>, <<70, 70>>, <<48, 48>>}

\* the known tilesets found on the disk
Tilesets(size) ==
    <<File(join(MysticSprites, "tilesets/walls/walls.png"),
           size[1], size[2], "ok"),
      File("asset_packs/extracted_assets/Cute_Fantasy_Fre/Tiles/Market_Stalls.png",
           96, 64, "ok")>>

\* the files of the known objects directory
Objects ==
    <<File(join(MysticSprites, "objects/chests/chest_01.png"), 16, 16, "ok"),
      File(join(MysticSprites, "objects/nature/house_plant.png"),
           32, 32, "ok"),
      File(join(MysticSprites, "objects/nature/Ground_Bush.PNG"),
           16, 16, "ok")>>

\* the files of the assets directory
Assets ==
    <<File("assets/props/tree_stump.png", 32, 32, "ok"),
      File("assets/props/_crate.png", 24, 24, "ok"),
      File("assets/props/rock_1.png", 32, 32, "ok"),
      File("assets/props/rock_2.png", 24, 24, "ok"),
      File("assets/props/barrel.jpg", 40, 40, "ok"),
      File("assets/props/notes.txt", 0, 0, "pygame.error"),
      File("assets/misc/logo.png", 64, 64, "ok"),
      File("assets/buildings/house_big.png", 96, 96, "ok"),
      File("assets/buildings/shop.png", 80, 40, "ok"),
      File("assets/buildings/house.png", 64, 64, "ok"),
      File("assets/items/Market_Stalls.png", 48, 48, "ok")>>

\* a sixth image of assets/props
SixthProp == <<File("assets/props/sign_post.png", 32, 32, "ok")>>

\* images that do not load: a corrupt file in the known objects
\* directory, a dangling link and a corrupt file in the assets directory
Unreadable ==
    <<File(join(MysticSprites, "objects/chests/chest_02.png"),
           16, 16, "pygame.error"),
      File("assets/buildings/market.png", 32, 32, "FileNotFoundError"),
      File("assets/terrain/grass.png", 32, 32, "pygame.error")>>

Reverse(list) == [i \in 1..Len(list) |-> list[Len(list) + 1 - i]]

\* a list, or the empty list
Maybe(list) == {<<>>, list}

\* the disks: the assets and the known objects, with or without the known
\* tilesets, the sixth prop and the unreadable images, as os.walk yields
\* them in one order or in the opposite one
Disks ==
    UNION {{disk, Reverse(disk)} :
        disk \in {t \o Objects \o Assets \o s \o u :
                     t \in {<<>>} \cup {Tilesets(size) : size \in WallsSizes},
                     s \in Maybe(SixthProp),
                     u \in Maybe(Unreadable)}}

\* the disk scanned before the sidebar is used: the known tilesets with
\* the 128x96 walls.png, the known objects and the assets
SidebarDisk == Tilesets(<<128, 96>>) \o Objects \o Assets

----------------------------------------------------------------------------
(* Files found in the maps directory when the editor starts *)

NotesTxt == <<"n", "o", "t", "e", "s", ".", "t", "x", "t">>
OldMapJson == <<"o", "l", "d", "_", "m", "a", "p">> \o JsonSuffix
BadMapJson == <<"b", "a", "d", "_", "m", "a", "p">> \o JsonSuffix
BrokenJson == <<"b", "r", "o", "k", "e", "n">> \o JsonSuffix

\* a 2x2 map written by an earlier session
OldMap ==
    [name      |-> <<"O", "l", "d", " ", "M", "a", "p">>,
     width     |-> 2,
     height    |-> 2,
     tile_size |-> TILE_SIZE,
     layers    |-> [l \in LayerNames |->
                      IF l = "terrain"
                      THEN (pos_key(1, 1) :>
                              [type |-> "dirt", x |-> 1, y |-> 1,
                               layer |-> "terrain"])
                      ELSE EmptyDict]]

\* a hand-edited map: one sound record, one whose key disagrees with its
\* x and y, one whose key is no coordinate pair
BadMapText ==
    JObject(
        [name      |-> JString(<<"B", "a", "d", " ", "M", "a", "p">>),
         width     |-> JNumber(InitWidth),
         height    |-> JNumber(InitHeight),
         tile_size |-> JNumber(TILE_SIZE),
         layers    |-> JObject([l \in LayerNames |->
            IF l = "terrain"
            THEN JObject(
                    (pos_key(0, 0) :> dump_tile(
                        [type |-> "grass", x |-> 0, y |-> 0,
                         layer |-> "terrain"]))
                    @@
                    (pos_key(1, 1) :> dump_tile(
                        [type |-> "dirt", x |-> 5, y |-> 5,
                         layer |-> "terrain"]))
                    @@
                    (<<"a", ",">> :> dump_tile(
                        [type |-> "sand", x |-> 2, y |-> 2,
                         layer |-> "terrain"])))
            ELSE JObject(EmptyDict)])])

LegacyMapJson == <<"l", "e", "g", "a", "c", "y">> \o JsonSuffix

\* a map written by another tool: the layers terrain and objects, and one
\* record whose layer field names a layer ground
LegacyMapText ==
    JObject(
        [name      |-> JString(<<"L", "e", "g", "a", "c", "y">>),
         width     |-> JNumber(InitWidth),
         height    |-> JNumber(InitHeight),
         tile_size |-> JNumber(TILE_SIZE),
         layers    |-> JObject(
            ("terrain" :> JObject(
                pos_key(0, 0) :> dump_tile(
                    [type |-> "grass", x |-> 0, y |-> 0,
                     layer |-> "ground"])))
            @@
            ("objects" :> JObject(EmptyDict)))])

\* a maps directory that holds that map
LegacyDir ==
    [exists |-> TRUE, files |-> (LegacyMapJson :> LegacyMapText)]

NoMapsDir == [exists |-> FALSE, files |-> EmptyDict]

\* maps directories that hold no map file
OwnDirs ==
    {NoMapsDir,
     [exists |-> TRUE, files |-> (NotesTxt :> NotJson)]}

\* maps directories that hold map files of other origin
ForeignDirs ==
    {[exists |-> TRUE,
      files |-> (NotesTxt :> NotJson) @@ (OldMapJson :> json_dump(OldMap))],
     [exists |-> TRUE,
      files |-> (BadMapJson :> BadMapText) @@ (BrokenJson :> NotJson)]}

----------------------------------------------------------------------------
(* The rest of the editor state after __init__ *)

\* the camera at the origin, the grid shown, the sidebar unscrolled
InitView ==
    /\ camera_x = 0
    /\ camera_y = 0
    /\ grid_enabled = TRUE
    /\ sidebar_tile_scroll = 0
    /\ sidebar_tile_scroll_max = 0

\* the asset groups that go with FoundCategories and FoundTextures
FoundGroups ==
    ("grass" :> [category |-> "terrain", tiles |-> <<"grass">>,
                 preview |-> Rect(0, 0, 32, 32)])
    @@
    ("walls" :> [category |-> "terrain", tiles |-> <<"walls_1">>,
                 preview |-> Rect(0, 0, 70, 70)])
    @@
    ("crate" :> [category |-> "decorations", tiles |-> <<"">>,
                 preview |-> Rect(0, 0, 32, 32)])

\* no _process_asset_file call on record
NoScanCall == [filepath |-> "", outcome |-> "none"]

\* the calls of the scan are not followed
ScanNotFollowed ==
    /\ scan_list = <<>>
    /\ scan_pos = 0
    /\ scan_pass = 0
    /\ scan_last = NoScanCall
    /\ first_scan = None

----------------------------------------------------------------------------
(* Specifications *)

\* __init__: a new 40x30 map, the layer and selection defaults, the scan
InitEditor(dirs) ==
    /\ map_data = initialize_new_map(InitWidth, InitHeight)
    /\ current_layer = "terrain"
    /\ selected_category = "terrain"
    /\ selected_tile = "grass"
    /\ categories = FoundCategories
    /\ textures = FoundTextures
    /\ \E d \in dirs :
        /\ maps_exists = d.exists
        /\ maps_dir = d.files
    /\ last_call = Call("__init__", 0, 0, NoFile, "initialized")
    /\ InitView
    /\ asset_groups = FoundGroups
    /\ ScanNotFollowed

SlicerIdle ==
    /\ image = NoImage
    /\ tiles = <<>>
    /\ slice_pc = "idle"

\* editing, saving and loading, in a maps directory of any content
Init == InitEditor(OwnDirs \cup ForeignDirs) /\ SlicerIdle

PlaceTile == Place(MaxPlaced) /\ UNCHANGED <<svars, kvars, ivars>>
RemoveTile == Remove /\ UNCHANGED <<svars, kvars, ivars>>
KeyLayer == SwitchLayer /\ UNCHANGED <<svars, kvars, ivars>>
SaveMap == save_map /\ UNCHANGED <<svars, kvars, ivars>>
LoadMap == load_map /\ UNCHANGED <<svars, kvars, ivars>>

Next == PlaceTile \/ RemoveTile \/ KeyLayer \/ SaveMap \/ LoadMap

Spec == Init /\ [][Next]_vars

\* the same, where every map file of the directory was written by save_map
InitOwn == InitEditor(OwnDirs) /\ SlicerIdle

SpecOwn == InitOwn /\ [][Next]_vars

\* editing alone: place, remove, layer keys and sidebar selection
InitEdit == InitEditor({NoMapsDir}) /\ SlicerIdle

ClickCategory == SelectCategory /\ UNCHANGED <<svars, ivars>>
ClickTile == SelectTile /\ UNCHANGED <<svars, ivars>>

NextEdit == PlaceTile \/ RemoveTile \/ KeyLayer \/ ClickCategory \/ ClickTile

SpecEdit == InitEdit /\ [][NextEdit]_vars

\* the keyboard, on a new map and on a map that holds a placement
InitKeys == InitEditor(OwnDirs) /\ SlicerIdle

KeyPress == KeyDown /\ UNCHANGED <<svars, ivars>>
PlaceFirstTile == Place(1) /\ UNCHANGED <<svars, kvars, ivars>>

NextKeys == KeyPress \/ PlaceFirstTile

SpecKeys == InitKeys /\ [][NextKeys]_vars

\* the asset scan of __init__ on one of the disks, call by call, and a
\* second scan by the same editor over the same disk
InitScan ==
    /\ map_data = initialize_new_map(InitWidth, InitHeight)
    /\ current_layer = "terrain"
    /\ selected_category = "terrain"
    /\ selected_tile = "grass"
    /\ categories = InitCategories
    /\ textures = NoTextures
    /\ maps_exists = FALSE
    /\ maps_dir = EmptyDict
    /\ last_call = Call("__init__", 0, 0, NoFile, "scanning")
    /\ SlicerIdle
    /\ InitView
    /\ asset_groups = EmptyDict
    /\ \E disk \in Disks : scan_list = ScanCalls(disk)
    /\ scan_pos = 0
    /\ scan_pass = 1
    /\ scan_last = NoScanCall
    /\ first_scan = None

\* the next call of the scan
ProcessAssetFile ==
    /\ scan_pos < Len(scan_list)
    /\ LET call == scan_list[scan_pos + 1]
           t == process_asset_file(
                    Tables(categories, textures, asset_groups),
                    call.asset, call.default_category)
       IN /\ categories' = t.categories
          /\ textures' = t.textures
          /\ asset_groups' = t.asset_groups
          /\ scan_last' =
                 [filepath |-> call.asset.filepath,
                  outcome |-> process_outcome(call.asset),
                  default_category |-> call.default_category,
                  category |-> asset_category(call.asset.filepath,
                                              call.default_category)]
    /\ scan_pos' = scan_pos + 1
    /\ UNCHANGED <<map_data, current_layer, selected_category,
                   selected_tile, maps_exists, maps_dir, last_call,
                   svars, kvars, scan_list, scan_pass, first_scan>>

\* scan_project_assets called again: textures = {} anew, self.categories
\* and self.asset_groups as the first scan left them
ScanAgain ==
    /\ scan_pass = 1
    /\ scan_pos = Len(scan_list)
    /\ first_scan' = Tables(categories, textures, asset_groups)
    /\ textures' = NoTextures
    /\ scan_pos' = 0
    /\ scan_pass' = 2
    /\ scan_last' = NoScanCall
    /\ UNCHANGED <<map_data, current_layer, selected_category,
                   selected_tile, categories, maps_exists, maps_dir,
                   last_call, svars, kvars, asset_groups, scan_list>>

NextScan == ProcessAssetFile \/ ScanAgain

SpecScan == InitScan /\ [][NextScan]_vars

\* __init__ scanning SidebarDisk call by call, then the sidebar in use:
\* the wheel, Shift with the up and down keys, and clicks on the category
\* headers, the scroll buttons and the tiles
InitSidebar ==
    /\ map_data = initialize_new_map(InitWidth, InitHeight)
    /\ current_layer = "terrain"
    /\ selected_category = "terrain"
    /\ selected_tile = "grass"
    /\ categories = InitCategories
    /\ textures = NoTextures
    /\ maps_exists = FALSE
    /\ maps_dir = EmptyDict
    /\ last_call = Call("__init__", 0, 0, NoFile, "scanning")
    /\ SlicerIdle
    /\ InitView
    /\ asset_groups = EmptyDict
    /\ scan_list = ScanCalls(SidebarDisk)
    /\ scan_pos = 0
    /\ scan_pass = 1
    /\ scan_last = NoScanCall
    /\ first_scan = None

\* the event loop starts when __init__ has returned
Running == scan_pos = Len(scan_list)

Wheel == Running /\ MouseWheel /\ UNCHANGED <<svars, ivars>>

ShiftScroll ==
    /\ Running
    /\ \E key \in {"K_UP", "K_DOWN"} : handle_key_press(key, FALSE, TRUE)
    /\ UNCHANGED <<svars, ivars>>

SidebarCategory == Running /\ ClickCategory

SidebarTile == Running /\ ClickTile

NextSidebar ==
    ProcessAssetFile \/ Wheel \/ ShiftScroll \/ SidebarCategory
        \/ SidebarTile

SpecSidebar == InitSidebar /\ [][NextSidebar]_vars

\* the layer in use: layer keys, Ctrl+L, the wheel, sidebar clicks, and
\* place and remove, in a maps directory that holds a map of other origin
InitLayers == InitEditor({LegacyDir} \cup ForeignDirs) /\ SlicerIdle

LayerKey ==
    /\ \E key \in Range(NumberKeys) : handle_key_press(key, FALSE, FALSE)
    /\ UNCHANGED <<svars, ivars>>

CtrlL == handle_key_press("K_l", TRUE, FALSE) /\ UNCHANGED <<svars, ivars>>

\* self.map_data["layers"][self.current_layer] raises KeyError when the
\* document lacks the layer: the call is lost
PlaceOnLayer == current_layer \in DOMAIN map_data.layers /\ PlaceFirstTile

RemoveOnLayer == current_layer \in DOMAIN map_data.layers /\ RemoveTile

NextLayers ==
    LayerKey \/ CtrlL \/ Wheel \/ ClickCategory \/ ClickTile
        \/ PlaceOnLayer \/ RemoveOnLayer

SpecLayers == InitLayers /\ [][NextLayers]_vars

\* the slicer applied to one image of any size in Dims x Dims
InitSlice ==
    /\ map_data = initialize_new_map(InitWidth, InitHeight)
    /\ current_layer = "terrain"
    /\ selected_category = "terrain"
    /\ selected_tile = "grass"
    /\ categories = InitCategories
    /\ textures = NoTextures
    /\ maps_exists = FALSE
    /\ maps_dir = EmptyDict
    /\ last_call = Call("__init__", 0, 0, NoFile, "initialized")
    /\ image \in [w : Dims, h : Dims]
    /\ tiles = <<>>
    /\ slice_pc = "ready"
    /\ InitView
    /\ asset_groups = EmptyDict
    /\ ScanNotFollowed

NextSlice == Slice

SpecSlice == InitSlice /\ [][NextSlice]_vars

----------------------------------------------------------------------------
(* Properties of the map document *)

\* the cell of the last place_tile or remove_tile call lies in the grid
LastCellInGrid ==
    /\ 0 <= last_call.x /\ last_call.x < map_data.width
    /\ 0 <= last_call.y /\ last_call.y < map_data.height

\* C1: right after place_tile succeeds on an in-bounds cell, the key "x,y"
\* of the current layer holds the record just placed (type = the selected
\* tile, x, y, layer); right after remove_tile on an in-bounds cell, the
\* key "x,y" of the current layer holds nothing.
C1_PlaceThenQuery ==
    LET k == pos_key(last_call.x, last_call.y)
        layer == map_data.layers[current_layer]
    IN /\ (last_call.op = "place_tile" /\ LastCellInGrid
                /\ Truthy(selected_tile))
          => /\ k \in DOMAIN layer
             /\ layer[k].type = selected_tile
             /\ layer[k].x = last_call.x
             /\ layer[k].y = last_call.y
             /\ layer[k].layer = current_layer
       /\ (last_call.op = "remove_tile" /\ LastCellInGrid)
          => k \notin DOMAIN layer

\* a tile was just placed on the last cell of the grid, on the vegetation
\* layer, over two earlier placements
C1_Witness ==
    /\ last_call.op = "place_tile"
    /\ last_call.result = "placed"
    /\ last_call.x = InitWidth - 1
    /\ last_call.y = InitHeight - 1
    /\ current_layer = "vegetation"
    /\ Placed(map_data) = 3

\* C2: a place_tile call with x < 0, y < 0, x >= width, y >= height or no
\* tile selected leaves the whole map document as it was.
C2_RejectedPlaceKeepsDocument ==
    [][(/\ last_call'.op = "place_tile"
        /\ \/ last_call'.x < 0
           \/ last_call'.y < 0
           \/ last_call'.x >= map_data.width
           \/ last_call'.y >= map_data.height
           \/ selected_tile \in {"", None})
       => map_data' = map_data]_vars

\* place_tile was just called with x = width on a document that holds
\* placements
C2_Witness ==
    /\ last_call.op = "place_tile"
    /\ last_call.x = map_data.width
    /\ last_call.result = "out_of_bounds"
    /\ Placed(map_data) > 0

\* place_tile was called with no tile selected
C2_WitnessNoTile ==
    /\ last_call.op = "place_tile"
    /\ last_call.result = "no_tile"
    /\ selected_tile = ""

\* C3: in every state reached from a new map by place, remove, layer
\* switches, save and load of files written by save, every stored
\* placement has 0 <= x < width and 0 <= y < height.
C3_PlacementsInBounds ==
    \A s \in Slots(map_data) :
        LET td == map_data.layers[s[1]][s[2]]
        IN /\ 0 <= td.x /\ td.x < map_data.width
           /\ 0 <= td.y /\ td.y < map_data.height

\* a saved document with a placement in the last column was just loaded
C3_Witness ==
    /\ last_call.op = "load_map"
    /\ last_call.result = "loaded"
    /\ \E s \in Slots(map_data) :
           map_data.layers[s[1]][s[2]].x = map_data.width - 1

\* a document whose placements are all in bounds and stored under the
\* key their x and y encode
Consistent(doc) ==
    \A s \in Slots(doc) :
        LET td == doc.layers[s[1]][s[2]]
        IN /\ 0 <= td.x /\ td.x < doc.width
           /\ 0 <= td.y /\ td.y < doc.height
           /\ KeyParses(s[2])
           /\ ParseKey(s[2]) = <<td.x, td.y>>

\* C4 as claimed: for a document of in-bounds placements with agreeing
\* keys, a load_map call that follows save_map leaves a document equal to
\* the one saved, whatever other map files the maps directory holds.
C4_RoundTripAnyDirectory ==
    [][(/\ last_call.op = "save_map"
        /\ last_call'.op = "load_map"
        /\ Consistent(map_data))
       => map_data' = map_data]_vars

\* C4 amended: for a document of in-bounds placements with agreeing keys,
\* a load_map call that follows save_map and reads the file save_map wrote
\* leaves a document equal to the one saved.
C4_RoundTripOfSavedFile ==
    [][(/\ last_call.op = "save_map"
        /\ last_call'.op = "load_map"
        /\ last_call'.file = last_call.file
        /\ Consistent(map_data))
       => map_data' = map_data]_vars

\* right after save_map, load_map read the saved file back, in a directory
\* that holds another map file; the document has sliced and unsliced
\* placements
C4_Witness ==
    /\ last_call.op = "load_map"
    /\ last_call.after = "save_map"
    /\ last_call.result = "loaded"
    /\ last_call.file = save_filename(map_data.name)
    /\ map_files # {last_call.file}
    /\ Consistent(map_data)
    /\ \E s \in Slots(map_data) :
           /\ "is_sliced" \in DOMAIN map_data.layers[s[1]][s[2]]
           /\ map_data.layers[s[1]][s[2]].x = InitWidth - 1

\* the records of a layer of a JSON map text that are stored under the
\* key their x and y encode
SoundRecords(layer) ==
    {k \in DOMAIN layer :
        KeyParses(k) /\ ParseKey(k) = <<layer[k].x, layer[k].y>>}

\* C5 as claimed: the document load_map produces holds, in every layer,
\* exactly the records of the file whose key parses and agrees with their
\* x and y, each as the file has it.
C5_LoadSkipsMalformed ==
    (last_call.op = "load_map" /\ last_call.result = "loaded")
    => LET file == json_load(maps_dir[last_call.file])
       IN \A l \in DOMAIN file.layers :
            /\ DOMAIN map_data.layers[l] = SoundRecords(file.layers[l])
            /\ \A k \in SoundRecords(file.layers[l]) :
                   map_data.layers[l][k] = file.layers[l][k]

\* C6: in every state reached from a new map by place and remove, each
\* placement stored under a key "x,y" has fields x and y equal to the
\* coordinates the key encodes.
C6_KeyAgreesWithFields ==
    \A s \in Slots(map_data) :
        /\ KeyParses(s[2])
        /\ ParseKey(s[2]) =
               <<map_data.layers[s[1]][s[2]].x, map_data.layers[s[1]][s[2]].y>>

\* placements at 39,29 and at 0,0 are stored on two layers
C6_Witness ==
    /\ pos_key(InitWidth - 1, InitHeight - 1)
           \in DOMAIN map_data.layers["vegetation"]
    /\ pos_key(0, 0) \in DOMAIN map_data.layers["terrain"]
    /\ last_call.op = "place_tile"

\* C7: a new map has exactly the layers terrain, vegetation, buildings,
\* decorations and npcs, all empty, and after any sequence of place and
\* remove the layer keys are still exactly those five.
C7_FiveLayers ==
    /\ DOMAIN map_data.layers =
           {"terrain", "vegetation", "buildings", "decorations", "npcs"}
    /\ last_call.op = "__init__"
       => \A l \in DOMAIN map_data.layers : DOMAIN map_data.layers[l] = {}

\* remove_tile just took the last placement off the current layer
C7_Witness ==
    /\ last_call.op = "remove_tile"
    /\ last_call.result = "removed"
    /\ DOMAIN map_data.layers[current_layer] = {}
    /\ Placed(map_data) > 0

\* C8: remove_tile on a cell that holds nothing on the current layer, or
\* on coordinates outside the grid, leaves every layer as it was.
C8_RemoveAbsentKeepsDocument ==
    [][(/\ last_call'.op = "remove_tile"
        /\ \/ last_call'.x < 0
           \/ last_call'.y < 0
           \/ last_call'.x >= map_data.width
           \/ last_call'.y >= map_data.height
           \/ pos_key(last_call'.x, last_call'.y)
                  \notin DOMAIN map_data.layers[current_layer])
       => map_data' = map_data]_vars

\* remove_tile was just called on an in-bounds cell that is empty on the
\* current layer and occupied on another
C8_Witness ==
    /\ last_call.op = "remove_tile"
    /\ last_call.result = "absent"
    /\ \E l \in DOMAIN map_data.layers :
           pos_key(last_call.x, last_call.y) \in DOMAIN map_data.layers[l]

\* the document but for one cell of one layer is left as it was
OnlyCellChanged(layer, k) ==
    /\ map_data'.name = map_data.name
    /\ map_data'.width = map_data.width
    /\ map_data'.height = map_data.height
    /\ map_data'.tile_size = map_data.tile_size
    /\ DOMAIN map_data'.layers = DOMAIN map_data.layers
    /\ \A l \in (DOMAIN map_data.layers) \ {layer} :
           map_data'.layers[l] = map_data.layers[l]
    /\ (DOMAIN map_data'.layers[layer]) \ {k}
           = (DOMAIN map_data.layers[layer]) \ {k}
    /\ \A j \in (DOMAIN map_data.layers[layer]) \ {k} :
           map_data'.layers[layer][j] = map_data.layers[layer][j]

\* C24: a place_tile or remove_tile call that succeeds on the in-bounds
\* cell (x, y) changes the entry "x,y" of the current layer and nothing
\* else: the other cells of that layer, the other layers, and name,
\* width, height and tile_size stay; after place_tile the entry is the
\* record of the tile just placed, whatever the cell held before, and
\* after remove_tile the cell holds nothing.
C24_OnlyTheCellChanges ==
    [][LET k == pos_key(last_call'.x, last_call'.y)
       IN /\ (last_call'.op = "place_tile" /\ last_call'.result = "placed")
             => /\ OnlyCellChanged(current_layer, k)
                /\ k \in DOMAIN map_data'.layers[current_layer]
                /\ map_data'.layers[current_layer][k].type = selected_tile
                /\ map_data'.layers[current_layer][k].x = last_call'.x
                /\ map_data'.layers[current_layer][k].y = last_call'.y
                /\ map_data'.layers[current_layer][k].layer = current_layer
          /\ (last_call'.op = "remove_tile"
                 /\ last_call'.result = "removed")
             => /\ OnlyCellChanged(current_layer, k)
                /\ k \notin DOMAIN map_data'.layers[current_layer]]_vars

\* a tile was just placed on cell 0,0 of the decorations layer while the
\* last cell of that layer and cell 0,0 of the terrain layer hold tiles
C24_Witness ==
    /\ last_call.op = "place_tile"
    /\ last_call.result = "placed"
    /\ last_call.x = 0 /\ last_call.y = 0
    /\ current_layer = "decorations"
    /\ pos_key(0, 0) \in DOMAIN map_data.layers["decorations"]
    /\ pos_key(InitWidth - 1, InitHeight - 1)
           \in DOMAIN map_data.layers["decorations"]
    /\ pos_key(0, 0) \in DOMAIN map_data.layers["terrain"]

----------------------------------------------------------------------------
(* Properties of the slicer *)

\* C9: for every image with w <= 64 and h <= 64, slicing returns exactly
\* one image, of the size of the input.
C9_SmallImageUnsliced ==
    (slice_pc = "sliced" /\ image.w <= 64 /\ image.h <= 64)
    => /\ Len(tiles) = 1
       /\ tiles[1].w = image.w
       /\ tiles[1].h = image.h

\* a 64x64 image was sliced
C9_Witness ==
    /\ slice_pc = "sliced"
    /\ image.w = 64
    /\ image.h = 64

\* the candidate units that divide both w and h
Units(w, h) ==
    {i \in 1..5 : w % CandidateSizes[i] = 0 /\ h % CandidateSizes[i] = 0}

\* the tiles are the u x u cells of the image in row-major order, for u
\* the first candidate of [16, 24, 32, 48, 64] that divides both w and h
RowMajorCells ==
    LET first == CHOOSE i \in Units(image.w, image.h) :
                     \A j \in 1..(i - 1) : j \notin Units(image.w, image.h)
        u == CandidateSizes[first]
        cols == image.w \div u
    IN /\ Len(tiles) = (image.w \div u) * (image.h \div u)
       /\ \A i \in 0..(Len(tiles) - 1) :
              tiles[i + 1] = Rect((i % cols) * u, (i \div cols) * u, u, u)

\* C10 as claimed: for every image some candidate unit divides in both
\* dimensions, slicing returns the (w / u) * (h / u) cells of that unit in
\* row-major order.
C10_DivisibleImageSliced ==
    (slice_pc = "sliced" /\ Units(image.w, image.h) # {})
    => RowMajorCells

\* C10 amended: the same for every such image that is at least 32 wide
\* and 32 high and more than 64 wide or more than 64 high.
C10_LargeDivisibleImageSliced ==
    (/\ slice_pc = "sliced"
     /\ Units(image.w, image.h) # {}
     /\ image.w >= 32 /\ image.h >= 32
     /\ (image.w > 64 \/ image.h > 64))
    => RowMajorCells

\* a 128x96 image was sliced into 48 tiles
C10_Witness ==
    /\ slice_pc = "sliced"
    /\ image.w = 128
    /\ image.h = 96
    /\ Len(tiles) = 48
\* C20: slicing returns the input image alone when either dimension is
\* below 32, when both dimensions are at most 64, or when none of 16, 24,
\* 32, 48, 64 divides both dimensions; in every other case it returns the
\* unit x unit cells of the first candidate that divides both.
C20_SliceDecision ==
    slice_pc = "sliced"
    => IF \/ image.w < 32
          \/ image.h < 32
          \/ (image.w <= 64 /\ image.h <= 64)
          \/ Units(image.w, image.h) = {}
       THEN tiles = <<Rect(0, 0, image.w, image.h)>>
       ELSE RowMajorCells

\* a 16x128 image, which 16 divides, came back alone
C20_Witness ==
    /\ slice_pc = "sliced"
    /\ image.w = 16
    /\ image.h = 128
    /\ Len(tiles) = 1

----------------------------------------------------------------------------
(* Properties of the keyboard *)

\* C19 as claimed: in every editor state, a press of S with Ctrl held runs
\* save_map, which writes the current document to the maps directory, and
\* a press of L with Ctrl held runs load_map.
C19_CtrlKeysSaveAndLoad ==
    [][/\ (\E shift \in BOOLEAN : handle_key_press("K_s", TRUE, shift))
          => /\ last_call'.op = "save_map"
             /\ save_filename(map_data.name) \in DOMAIN maps_dir'
       /\ (\E shift \in BOOLEAN : handle_key_press("K_l", TRUE, shift))
          => last_call'.op = "load_map"]_vars

----------------------------------------------------------------------------
(* Properties of the asset scan *)

\* the keyword groups, in the order of the claim
KeywordGroups ==
    <<[category |-> "terrain", keywords |-> {"tile", "terrain", "ground"}],
      [category |-> "vegetation",
       keywords |-> {"tree", "bush", "plant", "nature"}],
      [category |-> "buildings", keywords |-> {"build", "house", "structure"}],
      [category |-> "npcs", keywords |-> {"character", "npc", "people"}],
      [category |-> "decorations",
       keywords |-> {"item", "prop", "decoration"}]>>

\* the groups that have a keyword contained in the lower-cased path
MatchingGroups(path) ==
    {g \in 1..5 : \E kw \in KeywordGroups[g].keywords :
                      Contains(kw, str_lower(path))}

\* the category of the earliest matching group
EarliestCategory(path) == KeywordGroups[First(MatchingGroups(path))].category

\* a call of _process_asset_file was just made
Processed == scan_last.outcome # "none"

C12_DefaultOnlyWithoutMatch ==
    Processed
    => scan_last.category =
           IF MatchingGroups(scan_last.filepath) # {}
           THEN EarliestCategory(scan_last.filepath)
           ELSE IF scan_last.default_category # None
           THEN scan_last.default_category
           ELSE "terrain"

\* the call the step from scan_pos to scan_pos + 1 makes
StepCall == scan_list[scan_pos + 1]

\* C13: a call that treats its image as a sheet, which slices into n
\* sub-images, leaves in the textures and in the tile list of the image's
\* category the keys stem_1 .. stem_n (stem the lower-cased file name
\* without its extension) and adds no other key; the entry of stem_(i+1)
\* holds the sub-image of slice index i, tileset_index = i and
\* is_sliced = true; the other categories are untouched.
C13_SheetKeys ==
    [][(scan_pos' = scan_pos + 1 /\ scan_last'.outcome = "sliced")
       => LET a == StepCall.asset
              c == scan_last'.category
              stem == str_lower(splitext_root(basename(a.filepath)))
              subs == slice_tilesheet(a.width, a.height, 32)
              key(n) == stem \o "_" \o str_of_nat(n)
              keys == {key(n) : n \in 1..Len(subs)}
          IN /\ DOMAIN textures'[c] = (DOMAIN textures[c]) \cup keys
             /\ Range(categories'[c]) = Range(categories[c]) \cup keys
             /\ \A n \in 1..Len(subs) :
                    /\ textures'[c][key(n)].texture.image = a.filepath
                    /\ textures'[c][key(n)].texture.rect = subs[n]
                    /\ textures'[c][key(n)].tileset_index = n - 1
                    /\ textures'[c][key(n)].is_sliced = TRUE
             /\ \A k \in (DOMAIN textures[c]) \ keys :
                    textures'[c][k] = textures[c][k]
             /\ \A d \in (DOMAIN textures) \ {c} :
                    /\ textures'[d] = textures[d]
                    /\ categories'[d] = categories[d]]_vars

\* the 128x96 walls.png was just processed: terrain holds walls_1 ..
\* walls_48, walls_48 being the 16x16 cell at 112,80 with index 47
C13_Witness ==
    /\ Processed
    /\ scan_last.outcome = "sliced"
    /\ EndsWith(scan_last.filepath, "/walls.png")
    /\ {k \in DOMAIN textures.terrain : StartsWith(k, "walls_")}
           = {"walls_" \o str_of_nat(n) : n \in 1..48}
    /\ textures.terrain["walls_48"].tileset_index = 47
    /\ textures.terrain["walls_48"].texture.rect = Rect(112, 80, 16, 16)
    /\ textures.terrain["walls_1"].texture.rect = Rect(0, 0, 16, 16)

\* every call of the running scan has been made
ScanComplete == scan_pos = Len(scan_list)

\* the tables as they are now
CurrentTables == Tables(categories, textures, asset_groups)

\* C14: once a scan has completed, every tile type listed in the tiles of
\* an asset group is in the tile list of some category.
C14_GroupTilesListed ==
    ScanComplete
    => \A g \in DOMAIN asset_groups :
           \A tile_type \in Range(asset_groups[g].tiles) :
               \E c \in DOMAIN categories : tile_type \in Range(categories[c])

\* a scan has completed that left a group of 48 sliced tiles, a group
\* whose tile type was derived from the file name, and a group whose tile
\* type was matched in the category
C14_Witness ==
    /\ ScanComplete
    /\ scan_pass = 1
    /\ "walls" \in DOMAIN asset_groups
    /\ Len(asset_groups["walls"].tiles) = 48
    /\ "chest" \in DOMAIN asset_groups
    /\ asset_groups["chest"].tiles = <<"chest">>
    /\ "rock" \in DOMAIN asset_groups
    /\ asset_groups["rock"].tiles = <<"rock">>

\* C15: a second scan by the same editor over the same files in the same
\* order ends with the category lists, the textures (tile type, category
\* and source of every asset) and the asset groups the first scan ended
\* with.
C15_SecondScanSame ==
    (scan_pass = 2 /\ ScanComplete) => CurrentTables = first_scan

\* the second scan has completed on a disk with sheets, single images,
\* unreadable images and a directory of more than five images
C15_Witness ==
    /\ scan_pass = 2
    /\ ScanComplete
    /\ Len(scan_list) >= 15
    /\ \E i \in 1..Len(scan_list) : scan_list[i].asset.load # "ok"
    /\ "walls_48" \in DOMAIN textures.terrain
    /\ "" \in DOMAIN textures.decorations

\* the calls of the scan whose image loads
Loadable == SelectSeq(scan_list, LAMBDA call : call.asset.load = "ok")

\* a call whose image does not load leaves the textures, the category
\* lists and the asset groups as they were, and the scan goes on to its
\* next call
FailureChangesNothing ==
    (/\ scan_pos' # scan_pos
     /\ scan_pass' = scan_pass
     /\ StepCall.asset.load # "ok")
    => /\ textures' = textures
       /\ categories' = categories
       /\ asset_groups' = asset_groups
       /\ scan_pos' = scan_pos + 1

\* the first scan ends with the tables the calls for the loadable images
\* alone, made in the same order, would leave
OthersUnaffected ==
    (scan_pass = 1 /\ ScanComplete)
    => CurrentTables =
           ProcessAll(Tables(InitCategories, NoTextures, EmptyDict),
                      Loadable)

C17_NoFileTwice ==
    /\ \A i, j \in 1..scan_pos :
           (i < j /\ scan_list[i].via = "asset_dirs")
           => scan_list[j].via = "asset_dirs"
    /\ \A i, j \in 1..scan_pos :
           i # j => scan_list[i].asset.filepath # scan_list[j].asset.filepath

\* C18: in every state of a scan, no category lists a tile type twice.
C18_NoDuplicateInCategory ==
    \A c \in DOMAIN categories :
        \A i, j \in 1..Len(categories[c]) :
            i # j => categories[c][i] # categories[c][j]

\* in the second scan the sheet walls.png was processed again, terrain
\* still lists walls_48, and tree is listed in two categories
C18_Witness ==
    /\ scan_pass = 2
    /\ Processed
    /\ scan_last.outcome = "sliced"
    /\ EndsWith(scan_last.filepath, "/walls.png")
    /\ "walls_48" \in Range(categories.terrain)
    /\ "tree" \in Range(categories.vegetation)
    /\ "tree" \in Range(categories.decorations)

\* a tileset indicator is in the path, letter case set aside
IndicatorInPath(filepath) ==
    \E ts \in Range(tileset_paths) :
        Contains(str_lower(ts), str_lower(filepath))

\* C21 as claimed: a call whose image loads treats it as a sheet exactly
\* when a tileset indicator is in its path, letter case set aside, or its
\* width and its height are both above 64; otherwise as a single image.
C21_SheetExactlyWhen ==
    (Processed /\ scan_last.outcome \in {"sliced", "single"})
    => LET a == scan_list[scan_pos].asset
       IN (scan_last.outcome = "sliced")
              <=> (IndicatorInPath(a.filepath)
                      \/ (a.width > 64 /\ a.height > 64))

\* the first name of a category list that is in the stem; None when no
\* name of the list is
FirstKnownIn(list, stem) ==
    IF \E i \in 1..Len(list) : Contains(list[i], stem)
    THEN list[First({i \in 1..Len(list) : Contains(list[i], stem)})]
    ELSE None

\* C22 as claimed: a call that treats its image as a single image stores
\* it under the first tile type of its category's list that is in the
\* file name stem and leaves the list as it is; when no tile type of the
\* list is in the stem it stores it under the part of the stem before its
\* first underscore and appends that to the list.
C22_SingleTileType ==
    [][(scan_pos' = scan_pos + 1 /\ scan_last'.outcome = "single")
       => LET a == StepCall.asset
              c == scan_last'.category
              stem == str_lower(splitext_root(basename(a.filepath)))
              known == FirstKnownIn(categories[c], stem)
              tile_type == IF known # None THEN known ELSE first_token(stem)
          IN /\ tile_type \in DOMAIN textures'[c]
             /\ textures'[c][tile_type].path = a.filepath
             /\ textures'[c][tile_type].is_sliced = FALSE
             /\ categories'[c] =
                    IF known # None THEN categories[c]
                    ELSE Append(categories[c], tile_type)]_vars

\* no asset group lists a tile type twice
NoDuplicateInGroup ==
    \A g \in DOMAIN asset_groups :
        \A i, j \in 1..Len(asset_groups[g].tiles) :
            i # j => asset_groups[g].tiles[i] # asset_groups[g].tiles[j]

\* a group that exists stays, with the category and the preview it has
GroupKept ==
    \A g \in DOMAIN asset_groups :
        /\ g \in DOMAIN asset_groups'
        /\ asset_groups'[g].category = asset_groups[g].category
        /\ asset_groups'[g].preview = asset_groups[g].preview

\* C23: in every state of a scan no asset group lists a tile type twice,
\* and no step changes the category or the preview of a group that
\* exists: they stay those of the call that created the group.
C23_GroupAddIdempotent == []NoDuplicateInGroup /\ [][GroupKept]_vars

\* the 24x24 rock_2.png created the group rock, the 32x32 rock_1.png was
\* processed after it under the same tile type, and the second scan has
\* met both again: the group lists rock once and shows rock_2.png
C23_Witness ==
    /\ scan_pass = 2
    /\ ScanComplete
    /\ "rock" \in DOMAIN asset_groups
    /\ asset_groups["rock"].tiles = <<"rock">>
    /\ asset_groups["rock"].preview = Rect(0, 0, 24, 24)
    /\ textures.decorations["rock"].original_size = <<32, 32>>
    /\ "walls" \in DOMAIN asset_groups
    /\ Len(asset_groups["walls"].tiles) = 48

----------------------------------------------------------------------------
(* Properties of the sidebar *)

\* the scroll limit of the selected category
SelectedLimit == scroll_limit(Len(categories[selected_category]))

\* C26 as claimed: in every state reached by wheel scrolls, Shift with the
\* up or down key, scroll button clicks, category selections and tile
\* clicks, the tile scroll is at least 0, at most sidebar_tile_scroll_max
\* and at most the scroll limit of the selected category.
C26_ScrollWithinLimit ==
    /\ 0 <= sidebar_tile_scroll
    /\ sidebar_tile_scroll <= sidebar_tile_scroll_max
    /\ sidebar_tile_scroll <= SelectedLimit

----------------------------------------------------------------------------
(* Properties of the layer in use *)

\* C25 as claimed: in every state reached by key presses, sidebar
\* clicks, wheel scrolls, loads, place and remove, current_layer is a
\* layer of the map document, and every stored placement's layer field is
\* the name of the layer that holds it.
C25_CurrentLayerInDocument ==
    /\ current_layer \in DOMAIN map_data.layers
    /\ \A s \in Slots(map_data) :
           map_data.layers[s[1]][s[2]].layer = s[1]

====
